---- MODULE Spec2Model ----
(***************************************************************************)
(* A model of the e-paper photo frame server (src/app.py): the in-memory   *)
(* image registry behind /upload, /get-img-data, /status and /clear-images.*)
(*                                                                         *)
(* The module-level names processed_images and sent_images are bindings to *)
(* list objects; clear_images rebinds them to fresh lists instead of       *)
(* emptying the old ones.  The lists therefore live in a heap, and the     *)
(* globals (and the handlers' temporaries) hold list identities.           *)
(***************************************************************************)
EXTENDS Integers, Sequences, FiniteSets, TLC

\* ---------------------------------------------------------------- bounds
\* The most images the registry is allowed to hold (uploads beyond are not tried).
MaxImages == 3
\* The longest run of next() calls that is counted after the stores of a cycle.
MaxNexts == 5
\* The number of requests served when handlers of several threads interleave.
MaxRequests == 3
\* The number of store calls, and of next() calls after them, when stores run
\* concurrently and next() calls run concurrently after them.
MaxBatch == 2

\* The largest raster converted: widths 1..MaxWidth, heights 1..MaxHeight.
MaxWidth == 2
MaxHeight == 2

\* image.resize((600, 448)): the size of every raster process_image dithers.
TargetWidth == 600
TargetHeight == 448
\* The number of rows of a full-size raster the dithering pass is followed for.
MaxRows == 166

\* ----------------------------------------------------------- input values
Absent == "<absent>"
None == "<None>"

\* Upload payloads: the value of the request's 'image' field.  Each one is
\* tagged with the step of process_image at which it raises, if any.
FailsAt ==
    [ imgA       |-> "none",
      imgB       |-> "none",
      badBase64  |-> "b64decode",
      notAnImage |-> "open",
      truncated  |-> "resize",
      badMode    |-> "dither",
      badPixel   |-> "encode" ]

Payloads == DOMAIN FailsAt

\* The wire text (", ".join of the 0xHH tokens) process_image produces.
WireData ==
    [ imgA |-> "0xFF, 0x00, ...", imgB |-> "0x2B, 0xE0, ..." ]

Names == {"x"}
\* The values datetime.now().isoformat() takes: two uploads may read the same
\* wall-clock value or different ones.
Timestamps == {"2024-01-01T08:00:00", "2024-01-01T08:00:01"}

\* The bodies of POST /upload: JSON or not, and the 'image' and 'name' fields,
\* each possibly missing.  The name is read only once the image is converted,
\* so it is varied only for the images that convert.
UploadRequests ==
    {r \in [json : BOOLEAN, image : Payloads \cup {Absent}, name : Names \cup {Absent}] :
        \/ r.json /\ r.image # Absent /\ FailsAt[r.image] = "none"
        \/ r.json /\ r.name = Absent
        \/ r.image = Absent /\ r.name = Absent}

\* -------------------------------------------------------------- variables
VARIABLES
    heap,                 \* list identity -> the list's elements
    processed_images,     \* global: identity of the list of stored records
    sent_images,          \* global: identity of the list of delivered records
    current_image_index,  \* global: the round-robin cursor
    pc,                   \* per thread: the handler position it is at
    loc,                  \* per thread: the handler's temporaries
    resp,                 \* the response most recently sent
    cycle,                \* history: since the last clear, whether every store came
                          \* before every next(), how many next() calls returned a
                          \* record, and the list the first of them found
    deliveredPos,         \* history: positions next() has returned since the last clear
    due,                  \* history: for each record stored since the last clear, the
                          \* next() calls left of those counted from its store, and
                          \* whether one of them has returned it
    hist,                 \* history of the interleaved requests
    img,                  \* process_image: the resized RGB image being converted
    pixels,               \* apply_floyd_steinberg_dithering: the int16 working array
    scan,                 \* the conversion's position: stage and pixel (x, y)
    data_array,           \* process_image: the tokens emitted
    fell_back,            \* whether color_palette.get fell back to 0xFF for a pixel
    wakeup_now,           \* wakeup_interval: the datetime.now() it read
    interval              \* wakeup_interval: the interval it returned

registry == <<heap, processed_images, sent_images, current_image_index>>
conversion == <<img, pixels, scan, data_array, fell_back>>
wakeup == <<wakeup_now, interval>>
threads == <<pc, loc, hist, conversion, wakeup>>
vars == <<heap, processed_images, sent_images, current_image_index,
          pc, loc, resp, cycle, deliveredPos, due, hist,
          img, pixels, scan, data_array, fell_back, wakeup_now, interval>>

\* The request threads of the server (app.run serves each request in a thread).
Threads == {"t1", "t2"}

\* List identities: the two globals' lists and two temporaries per thread.
ListIds == 0..(2 * Cardinality(Threads) + 1)
NoRef == -1

\* The lists the two globals are bound to.
PI == heap[processed_images]
SI == heap[sent_images]

NoImage == [data |-> "", timestamp |-> "", name |-> ""]

\* A response: the handler, the HTTP status, and what the body carries.  pos
\* (the index a record was read at) and fault (what was wrong with the
\* request, "" if nothing) are not sent; they record what the handler met.
Response(op, code, image, pos, total, sent, index, fault) ==
    [op |-> op, code |-> code, image |-> image, pos |-> pos,
     total |-> total, sent |-> sent, index |-> index, fault |-> fault]

Plain(op, code) == Response(op, code, NoImage, 0, 0, 0, 0, "")

NoResponse == Plain("none", 0)

\* What is wrong with an upload request, "" if nothing.
Fault(req) ==
    IF ~req.json THEN "no json"
    ELSE IF req.image = Absent THEN "no image"
    ELSE IF FailsAt[req.image] # "none" THEN "process_image"
    ELSE ""

\* A thread's temporaries: two list references (a, ref), two integers read
\* from the globals (c, n), the record in hand and the index it was read at.
NoLocals == [a |-> NoRef, ref |-> NoRef, c |-> 0, n |-> 0, image |-> NoImage, idx |-> 0]

\* ------------------------------------------------------------ pure parts

\* process_image: the wire text, or None when any step raises.
process_image(image_data) ==
    IF FailsAt[image_data] = "none" THEN WireData[image_data] ELSE None

\* Faulty variant of Truthy: the result of process_image is stored unchecked.
TruthyUnchecked(processed_data) == TRUE

\* `if processed_data:` in upload_image.
Truthy(processed_data) == processed_data # None /\ processed_data # ""

\* f'image_{len(processed_images) + 1}'
DefaultName(len) == "image_" \o ToString(len + 1)

\* data.get('name', f'image_{len(processed_images) + 1}')
NameOf(name, len) == IF name = Absent THEN DefaultName(len) ELSE name

\* The dict upload_image appends.
NewRecord(processed_data, now, name, len) ==
    [data |-> processed_data, timestamp |-> now, name |-> NameOf(name, len)]

\* Faulty variant of IsEmpty: the emptiness check is missing.
IsEmptyUnchecked(lst) == FALSE

\* `not processed_images`: an empty list is falsy.
IsEmpty(lst) == Len(lst) = 0

\* `image in lst`: list membership compares the dicts with ==.
Contains(lst, image) == \E i \in 1..Len(lst) : lst[i] = image

\* Faulty variant of StoreRecord: a record equal to a stored one is not added.
StoreRecordOnce(lst, record) == IF Contains(lst, record) THEN lst ELSE Append(lst, record)

\* processed_images.append({...}): the record goes to the end of the list.
StoreRecord(lst, record) == Append(lst, record)

\* Faulty variant of AdvanceCursor: the cursor is advanced without wrapping.
AdvanceCursorUnwrapped(index, len) == index + 1

\* (current_image_index + 1) % len(processed_images)
AdvanceCursor(index, len) == (index + 1) % len

\* Faulty variant of ReadIndex: the record is read after the cursor has advanced.
ReadIndexAdvanced(index, len) == (index + 1) % len

\* current_image_index % len(processed_images)
ReadIndex(index, len) == index % len

\* The list identities some thread holds in a temporary.
HeldBy(l) == UNION {{l[t].a, l[t].ref} : t \in Threads} \ {NoRef}

\* `[]`: the identity given to a new list, one that nothing in `keep` refers to.
Fresh(keep) == CHOOSE i \in ListIds \ keep : \A j \in ListIds \ keep : i <= j

\* Lists nothing refers to any more are gone.
Collect(h, p, s, l) ==
    [i \in ListIds |-> IF i \in HeldBy(l) \cup {p, s} THEN h[i] ELSE <<>>]

\* A datetime: the day (counted from some day 0), the second of the day and
\* the microsecond of the second.
DateTime(date, second, microsecond) ==
    [date |-> date, second |-> second, microsecond |-> microsecond]

\* /wakeup-interval has not been asked.
NoWakeup ==
    /\ wakeup_now = DateTime(0, 0, 0)
    /\ interval = 0

\* No image is being converted.
NoConversion ==
    /\ img = [width |-> 0, height |-> 0, px |-> <<>>]
    /\ pixels = <<>>
    /\ scan = [stage |-> "none", x |-> 0, y |-> 0]
    /\ data_array = <<>>
    /\ fell_back = FALSE

\* ------------------------------------------------------------------ Init
Init ==
    /\ heap = [i \in ListIds |-> <<>>]
    /\ processed_images = 0
    /\ sent_images = 1
    /\ current_image_index = 0
    /\ pc = [t \in Threads |-> "idle"]
    /\ loc = [t \in Threads |-> NoLocals]
    /\ resp = NoResponse
    /\ cycle = [pure |-> TRUE, k |-> 0, stored |-> <<>>]
    /\ deliveredPos = {}
    /\ due = <<>>
    /\ hist = [mode |-> "any", requests |-> 0, phase |-> "stores", stores |-> 0,
               nexts |-> 0, clear |-> "none"]
    /\ NoWakeup
    /\ NoConversion

\* The next() calls counted for a record stored at position i (from 0) while
\* the cursor is c.
Allowance(i, c) == i - c + 1

\* A record has been stored at the end of the list.
Owed(d, c) == Append(d, [left |-> Allowance(Len(d), c), returned |-> FALSE])

\* next() has been called and has returned the record at position idx: a call
\* is used up for every record not returned before.
Called(d, idx) ==
    [k \in 1..Len(d) |->
        IF d[k].returned THEN d[k]
        ELSE [left |-> d[k].left - 1, returned |-> k = idx + 1]]

\* ------------------------------------------- the handlers, run one at a time

\* Whether POST /upload with this body reaches processed_images.append.
Stores(req) ==
    /\ req.json
    /\ req.image # Absent
    /\ Truthy(process_image(req.image))

\* POST /upload.
upload_image(req) ==
    /\ Stores(req) => Len(PI) < MaxImages
    /\ IF ~req.json
         THEN \* request.get_json() raises: "Upload failed", 500
              /\ resp' = [Plain("upload", 500) EXCEPT !.fault = Fault(req)]
              /\ UNCHANGED <<registry, cycle, due>>
         ELSE IF req.image = Absent
         THEN /\ resp' = [Plain("upload", 400) EXCEPT !.fault = Fault(req)]
              /\ UNCHANGED <<registry, cycle, due>>
         ELSE IF Truthy(process_image(req.image))
         THEN /\ \E now \in Timestamps :
                    heap' = [heap EXCEPT ![processed_images] =
                               StoreRecord(@, NewRecord(process_image(req.image), now,
                                                        req.name, Len(PI)))]
              /\ resp' = [Plain("upload", 200) EXCEPT !.total = Len(PI) + 1,
                                                      !.fault = Fault(req)]
              /\ cycle' = IF cycle.k = 0 THEN cycle
                          ELSE [pure |-> FALSE, k |-> 0, stored |-> <<>>]
              /\ due' = Owed(due, current_image_index)
              /\ UNCHANGED <<processed_images, sent_images, current_image_index>>
         ELSE /\ resp' = [Plain("upload", 500) EXCEPT !.fault = Fault(req)]
              /\ UNCHANGED <<registry, cycle, due>>
    /\ UNCHANGED <<deliveredPos, threads>>

\* GET /get-img-data: 404 on an empty registry; otherwise return the record
\* under the cursor, advance the cursor, and remember the record in
\* sent_images unless an equal one is already there.  A modulo by a length of
\* zero raises ZeroDivisionError, which the server answers with 500.
get_img_data ==
    /\ cycle.pure => cycle.k < MaxNexts
    /\ IF IsEmpty(PI)
         THEN /\ resp' = Plain("next", 404)
              /\ UNCHANGED <<registry, cycle, deliveredPos, due>>
         ELSE IF Len(PI) = 0
         THEN /\ resp' = Plain("next", 500)
              /\ UNCHANGED <<registry, cycle, deliveredPos, due>>
         ELSE LET idx   == ReadIndex(current_image_index, Len(PI))
                  image == PI[idx + 1]
              IN  /\ current_image_index' = AdvanceCursor(current_image_index, Len(PI))
                  /\ heap' = IF Contains(SI, image) THEN heap
                             ELSE [heap EXCEPT ![sent_images] = Append(@, image)]
                  /\ resp' = [Plain("next", 200) EXCEPT !.image = image, !.pos = idx]
                  /\ deliveredPos' = deliveredPos \cup {idx}
                  /\ due' = Called(due, idx)
                  /\ cycle' = IF cycle.pure
                              THEN [cycle EXCEPT !.k = @ + 1,
                                                 !.stored = IF cycle.k = 0 THEN PI ELSE @]
                              ELSE cycle
                  /\ UNCHANGED <<processed_images, sent_images>>
    /\ UNCHANGED threads

\* GET /status.
status ==
    /\ resp' = [Plain("status", 200) EXCEPT !.total = Len(PI), !.sent = Len(SI),
                                            !.index = current_image_index]
    /\ UNCHANGED <<registry, cycle, deliveredPos, due, threads>>

\* POST /clear-images: both globals are rebound to new empty lists, the cursor to 0.
clear_images ==
    /\ processed_images' = Fresh(HeldBy(loc) \cup {sent_images})
    /\ sent_images' = Fresh(HeldBy(loc) \cup {processed_images'})
    /\ current_image_index' = 0
    /\ heap' = Collect([heap EXCEPT ![processed_images'] = <<>>, ![sent_images'] = <<>>],
                       processed_images', sent_images', loc)
    /\ resp' = Plain("clear", 200)
    /\ cycle' = [pure |-> TRUE, k |-> 0, stored |-> <<>>]
    /\ deliveredPos' = {}
    /\ due' = <<>>
    /\ UNCHANGED threads

Next ==
    \/ \E req \in UploadRequests : upload_image(req)
    \/ get_img_data
    \/ status
    \/ clear_images

Spec == Init /\ [][Next]_vars

\* ---------------------------------------- the handlers, interleaved by thread
\* Each thread serves one request at a time.  A step is one read or write of a
\* global, or one operation on a list object (len, subscript, `in`, append:
\* each is atomic in the interpreter); what a handler does to its own
\* temporaries between two such steps belongs to the step before.

\* The upload bodies tried when handlers interleave: one image that converts,
\* one that does not, and a body without 'image'.
ThreadRequests ==
    {r \in UploadRequests : r.json /\ r.image \in {"imgA", "notAnImage", Absent}}

UploadLabels == {"u_load", "u_name_load", "u_name_len", "u_append",
                 "u_total_load", "u_total_len"}
ClearLabels == {"c_p", "c_s", "c_c"}

AllIdle == \A t \in Threads : pc[t] = "idle"
UploadInFlight == \E t \in Threads : pc[t] \in UploadLabels

\* A step of thread t that neither touches the globals nor ends the request.
Local(t, label, l) ==
    /\ pc' = [pc EXCEPT ![t] = label]
    /\ loc' = [loc EXCEPT ![t] = l]
    /\ heap' = Collect(heap, processed_images, sent_images, loc')
    /\ UNCHANGED <<processed_images, sent_images, current_image_index,
                   resp, cycle, deliveredPos, due, hist, conversion, wakeup>>

\* The last step of a request of thread t: response r is sent, heap h is left.
Return(t, r, h) ==
    /\ pc' = [pc EXCEPT ![t] = "idle"]
    /\ loc' = [loc EXCEPT ![t] = NoLocals]
    /\ resp' = r
    /\ heap' = Collect(h, processed_images, sent_images, loc')

\* A request of one kind arrives at an idle thread.  In mode "any" the
\* clients send any requests at any time; in mode "batch" they send store
\* calls and, once every store has returned, next() calls.
Arrives(t, kind) ==
    /\ pc[t] = "idle"
    /\ IF hist.mode = "any"
         THEN hist.requests < MaxRequests
         ELSE \/ kind = "store" /\ hist.phase = "stores" /\ hist.stores < MaxBatch
              \/ kind = "next" /\ ~UploadInFlight /\ hist.stores >= 1
                                /\ hist.requests - hist.stores < MaxBatch

\* POST /upload, lines 97-102: the body is parsed and the image converted.
UploadBegin(t, req) ==
    /\ Arrives(t, IF Fault(req) = "" THEN "store" ELSE "upload")
    /\ IF Fault(req) # "" \/ ~Truthy(process_image(req.image))
         THEN /\ resp' = [Plain("upload", IF Fault(req) = "no image" THEN 400 ELSE 500)
                            EXCEPT !.fault = Fault(req)]
              /\ hist' = [hist EXCEPT !.requests = @ + 1]
              /\ UNCHANGED <<pc, loc>>
         ELSE /\ pc' = [pc EXCEPT ![t] = "u_load"]
              /\ loc' = [loc EXCEPT ![t].image =
                            [data |-> process_image(req.image), timestamp |-> "",
                             name |-> req.name]]
              /\ hist' = [hist EXCEPT
                            !.requests = @ + 1,
                            !.stores = @ + 1,
                            !.phase = IF @ = "stores" THEN "stores" ELSE "mixed",
                            !.clear = IF @ = "none" THEN "none" ELSE "void"]
              /\ UNCHANGED resp
    /\ UNCHANGED <<registry, cycle, deliveredPos, due, conversion, wakeup>>

\* Line 104: processed_images.append is looked up; line 106: datetime.now().
UploadLoad(t) ==
    /\ pc[t] = "u_load"
    /\ \E now \in Timestamps :
         Local(t, "u_name_load",
               [loc[t] EXCEPT !.a = processed_images, !.image.timestamp = now])

\* Line 107: processed_images is read for the default name ...
UploadNameLoad(t) ==
    /\ pc[t] = "u_name_load"
    /\ Local(t, "u_name_len", [loc[t] EXCEPT !.ref = processed_images])

\* ... and its length taken.
UploadNameLen(t) ==
    /\ pc[t] = "u_name_len"
    /\ Local(t, "u_append",
             [loc[t] EXCEPT !.ref = NoRef,
                            !.image.name = NameOf(@, Len(heap[loc[t].ref]))])

\* Lines 104-108: the record is appended to the list looked up at line 104.
UploadAppend(t) ==
    /\ pc[t] = "u_append"
    /\ pc' = [pc EXCEPT ![t] = "u_total_load"]
    /\ loc' = [loc EXCEPT ![t].a = NoRef, ![t].image = NoImage]
    /\ heap' = Collect([heap EXCEPT ![loc[t].a] = StoreRecord(@, loc[t].image)],
                       processed_images, sent_images, loc')
    /\ UNCHANGED <<processed_images, sent_images, current_image_index,
                   resp, cycle, deliveredPos, due, hist, conversion, wakeup>>

\* Line 112: processed_images is read for the response ...
UploadTotalLoad(t) ==
    /\ pc[t] = "u_total_load"
    /\ Local(t, "u_total_len", [loc[t] EXCEPT !.ref = processed_images])

\* ... and its length sent.
UploadTotalLen(t) ==
    /\ pc[t] = "u_total_len"
    /\ Return(t, [Plain("upload", 200) EXCEPT !.total = Len(heap[loc[t].ref])], heap)
    /\ UNCHANGED <<processed_images, sent_images, current_image_index,
                   cycle, deliveredPos, due, hist, conversion, wakeup>>

\* GET /get-img-data arrives.
NextBegin(t) ==
    /\ Arrives(t, "next")
    /\ pc' = [pc EXCEPT ![t] = "g_check_load"]
    /\ hist' = [hist EXCEPT
                  !.requests = @ + 1,
                  !.phase = IF @ = "nexts" \/ (@ = "stores" /\ ~UploadInFlight)
                            THEN "nexts" ELSE "mixed"]
    /\ UNCHANGED <<registry, loc, resp, cycle, deliveredPos, due, conversion, wakeup>>

\* Line 125: processed_images is read ...
NextCheckLoad(t) ==
    /\ pc[t] = "g_check_load"
    /\ Local(t, "g_check", [loc[t] EXCEPT !.ref = processed_images])

\* ... and tested: 404 when it is empty.
NextCheck(t) ==
    /\ pc[t] = "g_check"
    /\ IF IsEmpty(heap[loc[t].ref])
         THEN /\ Return(t, Plain("next", 404), heap)
              /\ UNCHANGED <<processed_images, sent_images, current_image_index,
                             cycle, deliveredPos, due, hist, conversion, wakeup>>
         ELSE Local(t, "g_a_load", [loc[t] EXCEPT !.ref = NoRef])

\* Line 129: the list to subscript is read,
NextListLoad(t) ==
    /\ pc[t] = "g_a_load"
    /\ Local(t, "g_c_read", [loc[t] EXCEPT !.a = processed_images])

\* then the cursor,
NextCursorRead(t) ==
    /\ pc[t] = "g_c_read"
    /\ Local(t, "g_b_load", [loc[t] EXCEPT !.c = current_image_index])

\* then processed_images again, for len(),
NextLenLoad(t) ==
    /\ pc[t] = "g_b_load"
    /\ Local(t, "g_b_len", [loc[t] EXCEPT !.ref = processed_images])

\* and its length taken.
NextLen(t) ==
    /\ pc[t] = "g_b_len"
    /\ Local(t, "g_subscr", [loc[t] EXCEPT !.ref = NoRef, !.n = Len(heap[loc[t].ref])])

\* Line 129: the modulo (ZeroDivisionError on a length of 0) and the subscript
\* (IndexError past the end of the list); either is answered with 500.
NextSubscript(t) ==
    /\ pc[t] = "g_subscr"
    /\ IF loc[t].n = 0 \/ ReadIndex(loc[t].c, loc[t].n) >= Len(heap[loc[t].a])
         THEN /\ Return(t, Plain("next", 500), heap)
              /\ UNCHANGED <<processed_images, sent_images, current_image_index,
                             cycle, deliveredPos, due, hist, conversion, wakeup>>
         ELSE Local(t, "g_c2_read",
                    [loc[t] EXCEPT !.a = NoRef,
                                   !.idx = ReadIndex(loc[t].c, loc[t].n),
                                   !.image = heap[loc[t].a][ReadIndex(loc[t].c, loc[t].n) + 1]])

\* Line 130: the cursor is read,
NextCursorRead2(t) ==
    /\ pc[t] = "g_c2_read"
    /\ Local(t, "g_n2_load", [loc[t] EXCEPT !.c = current_image_index])

\* then processed_images, for len(),
NextLenLoad2(t) ==
    /\ pc[t] = "g_n2_load"
    /\ Local(t, "g_n2_len", [loc[t] EXCEPT !.ref = processed_images])

\* its length taken,
NextLen2(t) ==
    /\ pc[t] = "g_n2_len"
    /\ Local(t, "g_store", [loc[t] EXCEPT !.ref = NoRef, !.n = Len(heap[loc[t].ref])])

\* and the advanced cursor written (ZeroDivisionError on a length of 0).
NextCursorWrite(t) ==
    /\ pc[t] = "g_store"
    /\ IF loc[t].n = 0
         THEN /\ Return(t, Plain("next", 500), heap)
              /\ UNCHANGED <<processed_images, sent_images, current_image_index,
                             cycle, deliveredPos, due, hist, conversion, wakeup>>
         ELSE /\ current_image_index' = AdvanceCursor(loc[t].c, loc[t].n)
              /\ pc' = [pc EXCEPT ![t] = "g_s_load"]
              /\ UNCHANGED <<heap, processed_images, sent_images, loc,
                             resp, cycle, deliveredPos, due, hist, conversion, wakeup>>

\* The 200 response of get_img_data: image['data'].
Delivered(t) == [Plain("next", 200) EXCEPT !.image = loc[t].image, !.pos = loc[t].idx]

DeliveredHist == [hist EXCEPT !.nexts = IF hist.phase = "nexts" THEN @ + 1 ELSE @]

\* Line 133: sent_images is read ...
NextSentLoad(t) ==
    /\ pc[t] = "g_s_load"
    /\ Local(t, "g_s_test", [loc[t] EXCEPT !.ref = sent_images])

\* ... and searched for a record equal to the image; if one is there, return.
NextSentTest(t) ==
    /\ pc[t] = "g_s_test"
    /\ IF Contains(heap[loc[t].ref], loc[t].image)
         THEN /\ Return(t, Delivered(t), heap)
              /\ hist' = DeliveredHist
              /\ UNCHANGED <<processed_images, sent_images, current_image_index,
                             cycle, deliveredPos, due, conversion, wakeup>>
         ELSE Local(t, "g_s2_load", [loc[t] EXCEPT !.ref = NoRef])

\* Line 134: sent_images is read again ...
NextSentLoad2(t) ==
    /\ pc[t] = "g_s2_load"
    /\ Local(t, "g_s_append", [loc[t] EXCEPT !.ref = sent_images])

\* ... and the image appended to it; line 137: return.
NextSentAppend(t) ==
    /\ pc[t] = "g_s_append"
    /\ Return(t, Delivered(t), [heap EXCEPT ![loc[t].ref] = Append(@, loc[t].image)])
    /\ hist' = DeliveredHist
    /\ UNCHANGED <<processed_images, sent_images, current_image_index,
                   cycle, deliveredPos, due, conversion, wakeup>>

\* GET /status arrives.
StatusBegin(t) ==
    /\ Arrives(t, "status")
    /\ pc' = [pc EXCEPT ![t] = "s_p_load"]
    /\ hist' = [hist EXCEPT !.requests = @ + 1]
    /\ UNCHANGED <<registry, loc, resp, cycle, deliveredPos, due, conversion, wakeup>>

\* Line 143: len(processed_images).
StatusTotalLoad(t) ==
    /\ pc[t] = "s_p_load"
    /\ Local(t, "s_p_len", [loc[t] EXCEPT !.ref = processed_images])

StatusTotalLen(t) ==
    /\ pc[t] = "s_p_len"
    /\ Local(t, "s_s_load", [loc[t] EXCEPT !.ref = NoRef, !.n = Len(heap[loc[t].ref])])

\* Line 144: len(sent_images).
StatusSentLoad(t) ==
    /\ pc[t] = "s_s_load"
    /\ Local(t, "s_s_len", [loc[t] EXCEPT !.ref = sent_images])

StatusSentLen(t) ==
    /\ pc[t] = "s_s_len"
    /\ Local(t, "s_c_read", [loc[t] EXCEPT !.ref = NoRef, !.c = Len(heap[loc[t].ref])])

\* Line 145: current_image_index; the snapshot is sent.
StatusCursorRead(t) ==
    /\ pc[t] = "s_c_read"
    /\ Return(t, [Plain("status", 200) EXCEPT !.total = loc[t].n, !.sent = loc[t].c,
                                             !.index = current_image_index], heap)
    /\ UNCHANGED <<processed_images, sent_images, current_image_index,
                   cycle, deliveredPos, due, hist, conversion, wakeup>>

\* POST /clear-images arrives.
ClearBegin(t) ==
    /\ Arrives(t, "clear")
    /\ pc' = [pc EXCEPT ![t] = "c_p"]
    /\ hist' = [hist EXCEPT
                  !.requests = @ + 1,
                  !.phase = "mixed",
                  !.clear = IF UploadInFlight THEN "void" ELSE "running"]
    /\ UNCHANGED <<registry, loc, resp, cycle, deliveredPos, due, conversion, wakeup>>

\* Line 172: processed_images = []
ClearProcessed(t) ==
    /\ pc[t] = "c_p"
    /\ pc' = [pc EXCEPT ![t] = "c_s"]
    /\ processed_images' = Fresh(HeldBy(loc) \cup {sent_images})
    /\ heap' = Collect([heap EXCEPT ![processed_images'] = <<>>],
                       processed_images', sent_images, loc)
    /\ UNCHANGED <<sent_images, current_image_index, loc, resp, cycle,
                   deliveredPos, due, hist, conversion, wakeup>>

\* Line 173: sent_images = []
ClearSent(t) ==
    /\ pc[t] = "c_s"
    /\ pc' = [pc EXCEPT ![t] = "c_c"]
    /\ sent_images' = Fresh(HeldBy(loc) \cup {processed_images})
    /\ heap' = Collect([heap EXCEPT ![sent_images'] = <<>>],
                       processed_images, sent_images', loc)
    /\ UNCHANGED <<processed_images, current_image_index, loc, resp, cycle,
                   deliveredPos, due, hist, conversion, wakeup>>

\* Line 174: current_image_index = 0; line 176: the response.
ClearCursor(t) ==
    /\ pc[t] = "c_c"
    /\ current_image_index' = 0
    /\ Return(t, Plain("clear", 200), heap)
    /\ hist' = [hist EXCEPT
                  !.clear = IF @ = "running" /\ \A u \in Threads \ {t} : pc[u] \notin ClearLabels
                            THEN "done" ELSE @]
    /\ UNCHANGED <<processed_images, sent_images, cycle, deliveredPos, due, conversion, wakeup>>

upload_steps(t) ==
    \/ \E req \in ThreadRequests : UploadBegin(t, req)
    \/ UploadLoad(t) \/ UploadNameLoad(t) \/ UploadNameLen(t)
    \/ UploadAppend(t) \/ UploadTotalLoad(t) \/ UploadTotalLen(t)

next_steps(t) ==
    \/ NextBegin(t) \/ NextCheckLoad(t) \/ NextCheck(t)
    \/ NextListLoad(t) \/ NextCursorRead(t) \/ NextLenLoad(t) \/ NextLen(t)
    \/ NextSubscript(t)
    \/ NextCursorRead2(t) \/ NextLenLoad2(t) \/ NextLen2(t) \/ NextCursorWrite(t)
    \/ NextSentLoad(t) \/ NextSentTest(t) \/ NextSentLoad2(t) \/ NextSentAppend(t)

status_steps(t) ==
    \/ StatusBegin(t) \/ StatusTotalLoad(t) \/ StatusTotalLen(t)
    \/ StatusSentLoad(t) \/ StatusSentLen(t) \/ StatusCursorRead(t)

clear_steps(t) ==
    \/ ClearBegin(t) \/ ClearProcessed(t) \/ ClearSent(t) \/ ClearCursor(t)

\* Any requests, on any thread, in any order.
NextThreads ==
    \E t \in Threads :
        upload_steps(t) \/ next_steps(t) \/ status_steps(t) \/ clear_steps(t)

SpecThreads == Init /\ [][NextThreads]_vars

\* Concurrent stores on the empty registry and, once all of them have
\* returned, concurrent next() calls.
InitBatch ==
    /\ heap = [i \in ListIds |-> <<>>]
    /\ processed_images = 0
    /\ sent_images = 1
    /\ current_image_index = 0
    /\ pc = [t \in Threads |-> "idle"]
    /\ loc = [t \in Threads |-> NoLocals]
    /\ resp = NoResponse
    /\ cycle = [pure |-> TRUE, k |-> 0, stored |-> <<>>]
    /\ deliveredPos = {}
    /\ due = <<>>
    /\ hist = [mode |-> "batch", requests |-> 0, phase |-> "stores", stores |-> 0,
               nexts |-> 0, clear |-> "none"]
    /\ NoWakeup
    /\ NoConversion

NextBatch == \E t \in Threads : upload_steps(t) \/ next_steps(t)

SpecBatch == InitBatch /\ [][NextBatch]_vars

\* ----------------------------------------------------- converting an image
\* color_palette, in the order the dict lists (and iterates) its keys.
color_palette ==
    << [rgb |-> <<255, 255, 255>>, code |-> 255],   \* 0xFF White
       [rgb |-> <<255, 255, 0>>,   code |-> 252],   \* 0xFC Yellow
       [rgb |-> <<255, 165, 0>>,   code |-> 236],   \* 0xEC Orange
       [rgb |-> <<255, 0, 0>>,     code |-> 224],   \* 0xE0 Red
       [rgb |-> <<0, 128, 0>>,     code |-> 53],    \* 0x35 Green
       [rgb |-> <<0, 0, 255>>,     code |-> 43],    \* 0x2B Blue
       [rgb |-> <<0, 0, 0>>,       code |-> 0] >>   \* 0x00 Black

PaletteColors == {color_palette[i].rgb : i \in 1..Len(color_palette)}

\* A Python int too large for one 32-bit number, kept as hi * 2^16 + lo with
\* 0 <= lo < 2^16.
Wide(hi, lo) == [hi |-> hi + (lo \div 65536), lo |-> lo % 65536]

\* sum((int(rgb[i]) - int(palette_rgb[i])) ** 2 for i in range(3)): Python
\* ints do not overflow, so the sum of the three squares is kept in two limbs.
Dist(rgb, palette_rgb) ==
    LET sq(i) == (rgb[i] - palette_rgb[i]) * (rgb[i] - palette_rgb[i])
    IN  Wide((sq(1) \div 65536) + (sq(2) \div 65536) + (sq(3) \div 65536),
             (sq(1) % 65536) + (sq(2) % 65536) + (sq(3) % 65536))

\* float('inf'), and `dist < min_dist`.
Inf == [hi |-> -1, lo |-> 0]
Less(dist, min_dist) ==
    \/ min_dist = Inf
    \/ dist.hi < min_dist.hi
    \/ dist.hi = min_dist.hi /\ dist.lo < min_dist.lo

\* Faulty variant of closest_palette_color: the comparison is `<=`, so of several
\* entries at the least distance the last one listed is kept.
closest_palette_color_last(rgb) ==
    LET loop[i \in 0..Len(color_palette)] ==
            IF i = 0
            THEN [min_dist |-> Inf, closest_color |-> <<255, 255, 255>>]
            ELSE LET before == loop[i - 1]
                     dist   == Dist(rgb, color_palette[i].rgb)
                 IN  IF Less(dist, before.min_dist) \/ dist = before.min_dist
                     THEN [min_dist |-> dist, closest_color |-> color_palette[i].rgb]
                     ELSE before
    IN  loop[Len(color_palette)].closest_color

\* closest_palette_color: the loop over the palette, keeping the first entry
\* whose distance is strictly below the least so far.
closest_palette_color(rgb) ==
    LET loop[i \in 0..Len(color_palette)] ==
            IF i = 0
            THEN [min_dist |-> Inf, closest_color |-> <<255, 255, 255>>]
            ELSE LET before == loop[i - 1]
                     dist   == Dist(rgb, color_palette[i].rgb)
                 IN  IF Less(dist, before.min_dist)
                     THEN [min_dist |-> dist, closest_color |-> color_palette[i].rgb]
                     ELSE before
    IN  loop[Len(color_palette)].closest_color

\* A value stored into the np.int16 array: it wraps around modulo 2^16.
Int16(v) == ((v + 32768) % 65536) - 32768

\* quant_error = np.array(old_pixel) - np.array(new_pixel), in int64.
QuantError(old_pixel) ==
    LET new_pixel == closest_palette_color(old_pixel)
    IN  [ch \in 1..3 |-> old_pixel[ch] - new_pixel[ch]]

\* Faulty variant of Share: the quotient is rounded to the nearest integer.
ShareRounded(e, w) ==
    IF e * w >= 0 THEN (2 * e * w + 16) \div 32 ELSE -((2 * (-(e * w)) + 16) \div 32)

\* Faulty variant of Share: the quotient is rounded down (floor division), so
\* a negative share is one further from zero.
ShareFloor(e, w) == (e * w) \div 16

\* (quant_error * w / 16).astype(np.int16): the float quotient, truncated
\* toward zero.
Share(e, w) == IF e * w >= 0 THEN (e * w) \div 16 ELSE -((-(e * w)) \div 16)

\* Faulty variant of Targets: the 7/16 share goes to the pixel on the left, which the
\* scan has already quantized.
TargetsLeft(x, y, width, height) ==
    (IF x - 1 >= 0 THEN <<[x |-> x - 1, y |-> y, w |-> 7]>> ELSE <<>>)
    \o (IF x - 1 >= 0 /\ y + 1 < height
        THEN <<[x |-> x - 1, y |-> y + 1, w |-> 3]>> ELSE <<>>)
    \o (IF y + 1 < height THEN <<[x |-> x, y |-> y + 1, w |-> 5]>> ELSE <<>>)
    \o (IF x + 1 < width /\ y + 1 < height
        THEN <<[x |-> x + 1, y |-> y + 1, w |-> 1]>> ELSE <<>>)

\* The pixels the error of (x, y) is diffused into, with their weights, in
\* the order of the four `if` statements.
Targets(x, y, width, height) ==
    (IF x + 1 < width THEN <<[x |-> x + 1, y |-> y, w |-> 7]>> ELSE <<>>)
    \o (IF x - 1 >= 0 /\ y + 1 < height
        THEN <<[x |-> x - 1, y |-> y + 1, w |-> 3]>> ELSE <<>>)
    \o (IF y + 1 < height THEN <<[x |-> x, y |-> y + 1, w |-> 5]>> ELSE <<>>)
    \o (IF x + 1 < width /\ y + 1 < height
        THEN <<[x |-> x + 1, y |-> y + 1, w |-> 1]>> ELSE <<>>)

\* pixels[y, x][:3] += share, channel by channel, in int16.
AddShare(px, t, quant_error) ==
    [px EXCEPT ![t.y][t.x] =
        [ch \in 1..3 |-> Int16(@[ch] + Share(quant_error[ch], t.w))]]

\* One pass of the loop body of apply_floyd_steinberg_dithering at (x, y).
DitherAt(px, x, y, width, height) ==
    LET old_pixel   == px[y][x]
        new_pixel   == closest_palette_color(old_pixel)
        quant_error == [ch \in 1..3 |-> old_pixel[ch] - new_pixel[ch]]
        targets     == Targets(x, y, width, height)
        spread[i \in 0..Len(targets)] ==
            IF i = 0 THEN [px EXCEPT ![y][x] = new_pixel]
            ELSE AddShare(spread[i - 1], targets[i], quant_error)
    IN  spread[Len(targets)]

\* np.clip(pixels, 0, 255), then .astype(np.uint8).
Clip(v) == IF v < 0 THEN 0 ELSE IF v > 255 THEN 255 ELSE v

\* color_palette.get(tuple(rgb), 0xFF): the code of a palette color, 0xFF for
\* any other color.
CodeOf(rgb) ==
    IF rgb \in PaletteColors
    THEN (CHOOSE i \in 1..Len(color_palette) : color_palette[i].rgb = rgb)
    ELSE 0
ColorCode(rgb) == IF CodeOf(rgb) = 0 THEN 255 ELSE color_palette[CodeOf(rgb)].code

\* The digits of the X (uppercase hexadecimal) format.
HexDigits == <<"0", "1", "2", "3", "4", "5", "6", "7",
               "8", "9", "A", "B", "C", "D", "E", "F">>

\* Faulty variant of Token: the format is `X` instead of `02X`, no zero padding.
TokenUnpadded(color_code) ==
    IF color_code < 16 THEN "0x" \o HexDigits[color_code + 1]
    ELSE "0x" \o HexDigits[(color_code \div 16) + 1] \o HexDigits[(color_code % 16) + 1]

\* f"0x{color_code:02X}"
Token(color_code) ==
    "0x" \o HexDigits[(color_code \div 16) + 1] \o HexDigits[(color_code % 16) + 1]

\* The colors the pixels of an input image are drawn from: near-black (error
\* +10 a channel), mid gray (nearest: Green) and cyan (equally far from White
\* and Blue, error -255 in red).
SampleColors == {<<10, 10, 10>>, <<128, 128, 128>>, <<0, 255, 255>>}

Grid(width, height) == (0..(height - 1)) \X (0..(width - 1))

\* The images process_image hands to the ditherer: RGB, 8 bits a channel.
InitConversion ==
    /\ \E width \in 1..MaxWidth, height \in 1..MaxHeight :
         \E px \in [0..(height - 1) -> [0..(width - 1) -> SampleColors]] :
            /\ img = [width |-> width, height |-> height, px |-> px]
            /\ pixels = px           \* np.array(image, dtype=np.int16)
    /\ scan = [stage |-> "dither", x |-> 0, y |-> 0]
    /\ data_array = <<>>
    /\ fell_back = FALSE
    /\ heap = [i \in ListIds |-> <<>>]
    /\ processed_images = 0
    /\ sent_images = 1
    /\ current_image_index = 0
    /\ pc = [t \in Threads |-> "idle"]
    /\ loc = [t \in Threads |-> NoLocals]
    /\ resp = NoResponse
    /\ cycle = [pure |-> TRUE, k |-> 0, stored |-> <<>>]
    /\ deliveredPos = {}
    /\ due = <<>>
    /\ hist = [mode |-> "any", requests |-> 0, phase |-> "stores", stores |-> 0,
               nexts |-> 0, clear |-> "none"]
    /\ NoWakeup

\* Lines 42-57: the loop body for the pixel (scan.x, scan.y), then the next
\* pixel in row-major order.
DitherPixel ==
    /\ scan.stage = "dither"
    /\ pixels' = DitherAt(pixels, scan.x, scan.y, img.width, img.height)
    /\ scan' = IF scan.x + 1 < img.width
               THEN [scan EXCEPT !.x = @ + 1]
               ELSE IF scan.y + 1 < img.height
               THEN [scan EXCEPT !.x = 0, !.y = @ + 1]
               ELSE [stage |-> "clip", x |-> 0, y |-> 0]
    /\ UNCHANGED <<registry, pc, loc, resp, cycle, deliveredPos, due, hist,
                   img, data_array, fell_back, wakeup>>

\* Lines 59-60: the array is clipped to 0..255 and returned as an img.
ClipPixels ==
    /\ scan.stage = "clip"
    /\ pixels' = [y \in DOMAIN pixels |-> [x \in DOMAIN pixels[y] |->
                    [ch \in 1..3 |-> Clip(pixels[y][x][ch])]]]
    /\ scan' = [scan EXCEPT !.stage = "encode"]
    /\ UNCHANGED <<registry, pc, loc, resp, cycle, deliveredPos, due, hist,
                   img, data_array, fell_back, wakeup>>

\* Lines 77-82 of process_image: one token per pixel, row by row.
EncodePixels ==
    /\ scan.stage = "encode"
    /\ data_array' = [k \in 1..(img.width * img.height) |->
                        Token(ColorCode(pixels[(k - 1) \div img.width]
                                              [(k - 1) % img.width]))]
    /\ fell_back' = \E p \in Grid(img.width, img.height) : CodeOf(pixels[p[1]][p[2]]) = 0
    /\ scan' = [scan EXCEPT !.stage = "done"]
    /\ UNCHANGED <<registry, pc, loc, resp, cycle, deliveredPos, due, hist, img, pixels, wakeup>>

NextConversion == DitherPixel \/ ClipPixels \/ EncodePixels

SpecConversion == InitConversion /\ [][NextConversion]_vars

\* C3: palette closure.  When the dithering pass has completed, every pixel is
\* one of the seven palette colors, before and after the clip, and the encoder
\* has not fallen back to 0xFF for any pixel.
C3_PaletteClosure ==
    /\ scan.stage \in {"clip", "encode", "done"} =>
         \A p \in Grid(img.width, img.height) : pixels[p[1]][p[2]] \in PaletteColors
    /\ ~fell_back

\* A 2x2 image of cyan and gray pixels, none of them a palette color, has
\* been dithered and encoded; the error diffused into the last pixel moved
\* it to another palette color than its own nearest one.
C3_Witness ==
    /\ scan.stage = "done"
    /\ img.width = 2 /\ img.height = 2
    /\ img.px[0][0] = <<0, 255, 255>> /\ img.px[1][1] = <<128, 128, 128>>
    /\ pixels[1][1] # closest_palette_color(img.px[1][1])
    /\ Len(data_array) = 4

\* ------------------------------------------------- the registry, one call at a time

\* C1: round-robin cycling.  After n >= 1 stores on an empty registry and no
\* further store or clear, the k-th next() returns the record at position
\* (k-1) mod n, and the stored list is still the list the first next() found.
C1_RoundRobin ==
    (cycle.pure /\ cycle.k >= 1) =>
        /\ PI = cycle.stored
        /\ Len(PI) >= 1
        /\ resp.op = "next" =>
             /\ resp.code = 200
             /\ resp.pos = (cycle.k - 1) % Len(PI)
             /\ resp.image = PI[((cycle.k - 1) % Len(PI)) + 1]

\* The fifth next() after three stores has wrapped around and returns position 1.
C1_Witness ==
    /\ cycle.pure /\ cycle.k = 5 /\ Len(PI) = 3
    /\ resp.op = "next" /\ resp.code = 200 /\ resp.pos = 1
    /\ resp.image = PI[2] /\ PI[1] # PI[2] /\ PI[2] # PI[3]

\* C2: the cursor is inside the stored list whenever the list is non-empty,
\* and is 0 whenever it is empty.
C2_CursorInvariant ==
    IF Len(PI) = 0
    THEN current_image_index = 0
    ELSE current_image_index \in 0..(Len(PI) - 1)

\* The cursor on the last of three records, after a failed upload.
C2_Witness ==
    /\ Len(PI) = 3 /\ current_image_index = 2
    /\ resp.op = "upload" /\ resp.code = 500

\* C4: the delivered count status reports is the number of stored positions
\* next() has returned since the last clear.
C4_DeliveredByIdentity == Len(SI) = Cardinality(deliveredPos)

\* C5: an upload with no JSON body, no 'image' field, or an image that
\* process_image cannot convert is answered with an error and leaves
\* processed_images, sent_images and current_image_index as they were.
C5_FailedUploadStoresNothing ==
    [][(resp'.op = "upload" /\ resp'.fault # "") =>
          (resp'.code \in {400, 500} /\ UNCHANGED registry)]_vars

\* A conversion that failed, on a registry that holds records and has
\* delivered one.
C5_Witness ==
    /\ resp.op = "upload" /\ resp.code = 500 /\ resp.fault = "process_image"
    /\ Len(PI) = 2 /\ Len(SI) = 1 /\ current_image_index = 1

\* C6: next() on an empty registry answers 404 and changes nothing.
C6_EmptyRegistry ==
    [][(resp'.op = "next" /\ Len(PI) = 0) =>
          (resp'.code = 404 /\ UNCHANGED registry /\ UNCHANGED deliveredPos)]_vars

\* next() answered 404 on a registry that is empty.
C6_Witness == resp.op = "next" /\ resp.code = 404 /\ Len(PI) = 0 /\ Len(SI) = 0

\* ------------------------------------------------ the registry, calls interleaved

\* The positions of get_img_data after the record has been read at loc.idx.
PastSubscript == {"g_c2_read", "g_n2_load", "g_n2_len", "g_store",
                  "g_s_load", "g_s_test", "g_s2_load", "g_s_append"}

\* C7: N concurrent stores on the empty registry, then concurrent next()
\* calls: once the stores have returned the list holds N records, and every
\* index a next() reads at and every cursor value written is in [0, N).
C7_ConcurrentSafety ==
    /\ ~UploadInFlight => Len(PI) = hist.stores
    /\ hist.phase = "nexts" =>
         /\ current_image_index \in 0..(hist.stores - 1)
         /\ \A t \in Threads :
              pc[t] \in PastSubscript => loc[t].idx \in 0..(hist.stores - 1)
         /\ resp.op = "next" => (resp.code = 200 /\ resp.pos \in 0..(hist.stores - 1))

\* Two stores that interleaved (both took the default name from the empty
\* list) and two next() calls that interleave (both have read cursor 0).
C7_Witness ==
    /\ hist.stores = 2 /\ Len(PI) = 2
    /\ PI[1].name = "image_1" /\ PI[2].name = "image_1"
    /\ \A t \in Threads : pc[t] = "g_store" /\ loc[t].c = 0 /\ loc[t].idx = 0

\* C8: k next() calls that run concurrently on n >= 2 records, starting at
\* cursor 0, leave the cursor at k mod n.
C8_NoLostCursorUpdate ==
    (AllIdle /\ hist.phase = "nexts" /\ hist.stores >= 2 /\ Len(PI) = hist.stores) =>
        current_image_index = hist.nexts % hist.stores

\* C9: once a clear and the next() and status calls in flight with it have
\* returned, with no store in flight meanwhile, the registry is (empty list,
\* empty delivered list, cursor 0).
C9_ClearAtomic ==
    (AllIdle /\ hist.clear = "done") =>
        (Len(PI) = 0 /\ Len(SI) = 0 /\ current_image_index = 0)

\* C10: a next() call ends with a stored record (200) or with Empty (404).
C10_NextTotal == resp.op = "next" => resp.code \in {200, 404}

\* ------------------------------------------------ the nearest-color lookup
\* Channel values of a working-buffer pixel: 8-bit values, values the diffused
\* error has pushed below 0 or above 255, and the values at which two palette
\* colors are equally far (64: Green/Black, 210: Yellow/Orange).
ChannelSamples == {-20, 0, 64, 210, 255, 300}

\* The last pixel of a pass (a raster of one pixel), holding any triple the
\* diffusion may have left in the working array.
InitNearest ==
    /\ \E rgb \in ChannelSamples \X ChannelSamples \X ChannelSamples :
            /\ img = [width |-> 1, height |-> 1, px |-> [y \in 0..0 |-> [x \in 0..0 |-> rgb]]]
            /\ pixels = [y \in 0..0 |-> [x \in 0..0 |-> rgb]]
    /\ scan = [stage |-> "dither", x |-> 0, y |-> 0]
    /\ data_array = <<>>
    /\ fell_back = FALSE
    /\ heap = [i \in ListIds |-> <<>>]
    /\ processed_images = 0
    /\ sent_images = 1
    /\ current_image_index = 0
    /\ pc = [t \in Threads |-> "idle"]
    /\ loc = [t \in Threads |-> NoLocals]
    /\ resp = NoResponse
    /\ cycle = [pure |-> TRUE, k |-> 0, stored |-> <<>>]
    /\ deliveredPos = {}
    /\ due = <<>>
    /\ hist = [mode |-> "any", requests |-> 0, phase |-> "stores", stores |-> 0,
               nexts |-> 0, clear |-> "none"]
    /\ NoWakeup

SpecNearest == InitNearest /\ [][NextConversion]_vars

\* The squared Euclidean distance of two triples (of small values).
SquaredDistance(c, p) ==
    (c[1] - p[1]) * (c[1] - p[1]) + (c[2] - p[2]) * (c[2] - p[2])
    + (c[3] - p[3]) * (c[3] - p[3])

\* C11: nearest-color lookup.  For every integer triple c, values outside
\* 0..255 included, closest_palette_color(c) is a palette color at the least
\* squared distance from c, and every palette color listed before it is
\* strictly farther from c.
C11_NearestColor ==
    (scan.stage = "clip" /\ img.width = 1 /\ img.height = 1) =>
        LET c == img.px[0][0]
            p == pixels[0][0]
        IN  /\ p \in PaletteColors
            /\ \A i \in 1..Len(color_palette) :
                   SquaredDistance(c, color_palette[i].rgb) >= SquaredDistance(c, p)
            /\ \A i \in 1..Len(color_palette) :
                   (i < CodeOf(p)) =>
                       SquaredDistance(c, color_palette[i].rgb) > SquaredDistance(c, p)

\* A triple outside 0..255, equally far from Yellow and Orange, has been
\* looked up; Yellow, listed first, was returned.
C11_Witness ==
    /\ scan.stage = "clip"
    /\ img.width = 1 /\ img.height = 1
    /\ img.px[0][0] = <<300, 210, -20>>
    /\ SquaredDistance(<<300, 210, -20>>, <<255, 255, 0>>)
         = SquaredDistance(<<300, 210, -20>>, <<255, 165, 0>>)
    /\ pixels[0][0] = <<255, 255, 0>>

\* ------------------------------------------------ the solid near-black raster
\* The image being converted is 2x2 with every pixel (10, 10, 10).
NearBlack2x2 ==
    /\ img.width = 2 /\ img.height = 2
    /\ \A p \in Grid(2, 2) : img.px[p[1]][p[2]] = <<10, 10, 10>>

\* The working value of the pixel the scan is at, and the error its
\* quantization leaves to diffuse.
old_pixel == pixels[scan.y][scan.x]
quant_error == QuantError(old_pixel)

\* C12 (as amended): the 2x2 raster of (10, 10, 10) pixels dithers to four
\* Black pixels, each encoded 0x00; the error each pixel leaves to diffuse is
\* not zero: it is 10, 14, 15 and 20 a channel for (0,0), (1,0), (0,1), (1,1).
C12_NearBlack ==
    NearBlack2x2 =>
        /\ scan.stage \in {"clip", "encode", "done"} =>
              \A p \in Grid(2, 2) : pixels[p[1]][p[2]] = <<0, 0, 0>>
        /\ scan.stage = "done" => data_array = <<"0x00", "0x00", "0x00", "0x00">>
        /\ scan.stage = "dither" =>
              /\ closest_palette_color(old_pixel) = <<0, 0, 0>>
              /\ LET e == <<<<10, 14>>, <<15, 20>>>>[scan.y + 1][scan.x + 1]
                 IN  quant_error = <<e, e, e>>

\* Three pixels of the near-black raster have been quantized to Black, and the
\* scan stands at the last one, which has received 0 + 4 + 6 from them.
C12_Witness ==
    /\ NearBlack2x2
    /\ scan.stage = "dither" /\ scan.x = 1 /\ scan.y = 1
    /\ pixels[0][0] = <<0, 0, 0>> /\ pixels[0][1] = <<0, 0, 0>>
    /\ pixels[1][0] = <<0, 0, 0>>
    /\ old_pixel = <<20, 20, 20>>

\* C12 as stated: the near-black raster dithers to four Black pixels and the
\* quantization error propagated from each pixel is zero.
C12_ZeroError ==
    NearBlack2x2 =>
        /\ scan.stage \in {"clip", "encode", "done"} =>
              \A p \in Grid(2, 2) : pixels[p[1]][p[2]] = <<0, 0, 0>>
        /\ scan.stage = "done" => data_array = <<"0x00", "0x00", "0x00", "0x00">>
        /\ scan.stage = "dither" => quant_error = <<0, 0, 0>>

\* ------------------------------------------------------------ the wire format
\* The tokens of the seven palette codes 0xFF, 0xFC, 0xEC, 0xE0, 0x35, 0x2B, 0x00.
PaletteTokens == {"0xFF", "0xFC", "0xEC", "0xE0", "0x35", "0x2B", "0x00"}

\* C13: wire format.  A completed process_image has emitted exactly
\* width * height tokens; token number y * width + x (counted from 0) is the
\* byte code of the dithered pixel at (x, y), written 0xHH, and it is the
\* token of one of the seven palette codes.
C13_WireFormat ==
    scan.stage = "done" =>
        /\ Len(data_array) = img.width * img.height
        /\ \A y \in 0..(img.height - 1), x \in 0..(img.width - 1) :
              LET token == data_array[y * img.width + x + 1]
                  rgb   == pixels[y][x]
              IN  /\ token \in PaletteTokens
                  /\ \E i \in 1..Len(color_palette) :
                        /\ color_palette[i].rgb = rgb
                        /\ token = Token(color_palette[i].code)
                  /\ rgb = <<0, 0, 0>> <=> token = "0x00"
                  /\ rgb = <<0, 0, 255>> <=> token = "0x2B"

\* A 2x2 image has been encoded into four tokens; the pixel at (1, 0) is
\* Black and the pixel at (0, 1) is not, so tokens 1 and 2 show the order.
C13_Witness ==
    /\ scan.stage = "done"
    /\ img.width = 2 /\ img.height = 2
    /\ Len(data_array) = 4
    /\ pixels[0][1] = <<0, 0, 0>> /\ data_array[2] = "0x00"
    /\ pixels[1][0] # <<0, 0, 0>> /\ data_array[3] # "0x00"

\* ------------------------------------------------------- store, one call at a time
\* C14: store appends without dedup.  Every upload answered with 200 leaves
\* processed_images one record longer, the new record last and carrying the
\* converted image, whether or not an equal record is already stored; the
\* records stored before, their order, the cursor, sent_images and the
\* delivered positions are unchanged, and the response reports the new count.
C14_StoreAppends ==
    [][(resp'.op = "upload" /\ resp'.code = 200) =>
          /\ processed_images' = processed_images
          /\ Len(PI') = Len(PI) + 1
          /\ SubSeq(PI', 1, Len(PI)) = PI
          /\ PI'[Len(PI')].data \in {WireData[i] : i \in DOMAIN WireData}
          /\ resp'.total = Len(PI) + 1
          /\ sent_images' = sent_images
          /\ SI' = SI
          /\ current_image_index' = current_image_index
          /\ deliveredPos' = deliveredPos]_vars

\* The upload just answered stored a record equal to the one already stored
\* (same data, name and timestamp), after that one had been delivered.
C14_Witness ==
    /\ resp.op = "upload" /\ resp.code = 200 /\ resp.total = 2
    /\ Len(PI) = 2
    /\ PI[1] = PI[2]
    /\ Len(SI) = 1
    /\ current_image_index = 0
    /\ deliveredPos = {0}

\* ------------------------------------------- the pass over a full-size raster
\* A solid raster of the target size: every pixel has the one color listed in
\* img.px.  Cyan lies outside the gamut of the palette.
SolidColors == {<<0, 255, 255>>}

\* The rows of the working array the scan at row y reads or writes: y and
\* y + 1.  The rows above hold their final colors and the rows below still
\* hold the input, so only these two rows are kept in `pixels`.
Window(y) == y..(y + 1)

InitSolid ==
    /\ \E c \in SolidColors :
            /\ img = [width |-> TargetWidth, height |-> TargetHeight,
                      px |-> [y \in 0..0 |-> [x \in 0..0 |-> c]]]
            /\ pixels = [y \in Window(0) |-> [x \in 0..(TargetWidth - 1) |-> c]]
    /\ scan = [stage |-> "dither", x |-> 0, y |-> 0]
    /\ data_array = <<>>
    /\ fell_back = FALSE
    /\ heap = [i \in ListIds |-> <<>>]
    /\ processed_images = 0
    /\ sent_images = 1
    /\ current_image_index = 0
    /\ pc = [t \in Threads |-> "idle"]
    /\ loc = [t \in Threads |-> NoLocals]
    /\ resp = NoResponse
    /\ cycle = [pure |-> TRUE, k |-> 0, stored |-> <<>>]
    /\ deliveredPos = {}
    /\ due = <<>>
    /\ hist = [mode |-> "any", requests |-> 0, phase |-> "stores", stores |-> 0,
               nexts |-> 0, clear |-> "none"]
    /\ NoWakeup

\* Whether an accumulation of the loop body at (x, y) leaves the int16 range:
\* a neighbour's channel value plus the share it receives.
Wraps(px, x, y, width, height) ==
    LET targets == Targets(x, y, width, height)
        error   == QuantError(px[y][x])
    IN  \E i \in 1..Len(targets), ch \in 1..3 :
            LET sum == px[targets[i].y][targets[i].x][ch]
                       + Share(error[ch], targets[i].w)
            IN  sum < -32768 \/ sum > 32767

\* The inner loop (line 43) over the pixels lo .. hi - 1 of row y, in order:
\* the working array afterwards, and whether an accumulation wrapped on the
\* way.  The range is walked half by half, the first half before the second.
RECURSIVE DitherRange(_, _, _, _, _, _)
DitherRange(acc, lo, hi, y, width, height) ==
    IF hi - lo < 1 THEN acc
    ELSE IF hi - lo = 1
    THEN [px    |-> DitherAt(acc.px, lo, y, width, height),
          wraps |-> acc.wraps \/ Wraps(acc.px, lo, y, width, height)]
    ELSE LET half == DitherRange(acc, lo, (lo + hi) \div 2, y, width, height)
         IN  IF half.wraps \in BOOLEAN
             THEN DitherRange(half, (lo + hi) \div 2, hi, y, width, height)
             ELSE half

\* The inner loop over the whole of row y.
DitherRow(px, y, width, height) ==
    DitherRange([px |-> px, wraps |-> FALSE], 0, width, y, width, height)

\* The window one row below row y: row y + 1 of the working array `after`, and
\* row y + 2, which still holds the input color.
WindowBelow(after, y, color) ==
    [r \in Window(y + 1) |->
        IF r = y + 1 THEN after[r] ELSE [x \in 0..(TargetWidth - 1) |-> color]]

\* Lines 42-57 on the full-size raster, a row at a step; then the window
\* moves one row down.
DitherSolid ==
    /\ scan.stage = "dither"
    /\ scan.y < MaxRows /\ scan.y + 2 < img.height
    /\ \E after \in {DitherRow(pixels, scan.y, img.width, img.height).px} :
            pixels' = WindowBelow(after, scan.y, img.px[0][0])
    /\ scan' = [scan EXCEPT !.y = @ + 1]
    /\ UNCHANGED <<registry, pc, loc, resp, cycle, deliveredPos, due, hist,
                   img, data_array, fell_back, wakeup>>

SpecSolid == InitSolid /\ [][DitherSolid]_vars

\* C15: working-buffer range.  No accumulation of the dithering pass wraps
\* around: in the row the scan is about to process, every neighbour's channel
\* value plus the share of the error it receives is a signed 16-bit value.
C15_NoWrap ==
    (scan.stage = "dither" /\ scan.x = 0 /\ scan.y + 1 < img.height) =>
        ~DitherRow(pixels, scan.y, img.width, img.height).wraps

\* ------------------------------------------------------- the wakeup interval
\* time(8, 0) and time(20, 0), as the second of the day.
morning_time == 8 * 3600
evening_time == 20 * 3600

\* The values datetime.now() takes: every quarter of an hour of a day, the
\* last second before 08:00, 20:00 and midnight, each at the start of the
\* second, just after it and just before the next.
Clock ==
    {DateTime(0, second, microsecond) :
        second \in {h * 3600 + q * 900 : h \in 0..23, q \in 0..3}
                    \cup {morning_time - 1, evening_time - 1, 24 * 3600 - 1},
        microsecond \in {0, 1, 999999}}

\* int((later - earlier).total_seconds()) for later at a full second and
\* after earlier: the whole seconds of the difference, the fraction dropped.
WholeSecondsUntil(date, second, earlier) ==
    LET seconds == (date - earlier.date) * 24 * 3600 + second - earlier.second
    IN  IF earlier.microsecond = 0 THEN seconds ELSE seconds - 1

\* GET /wakeup-interval: 3600 between 08:00 and 20:00, otherwise the seconds
\* until 08:00 of the day after today.
wakeup_interval(clock) ==
    /\ wakeup_now' = clock
    /\ interval' =
          IF morning_time <= clock.second /\ clock.second < evening_time
          THEN 3600
          ELSE WholeSecondsUntil(clock.date + 1, morning_time, clock)
    /\ resp' = Plain("wakeup", 200)
    /\ UNCHANGED <<registry, cycle, deliveredPos, due, pc, loc, hist, conversion>>

NextWakeup == \E clock \in Clock : wakeup_interval(clock)

SpecWakeup == Init /\ [][NextWakeup]_vars

\* C16: wakeup interval.  For a time of day in [08:00, 20:00) the interval
\* returned is 3600; for any other time it is the number of seconds from now
\* until the earliest 08:00 that is later than now: 08:00 of the same day
\* before 08:00, 08:00 of the next day from 20:00 on.
C16_WakeupInterval ==
    resp.op = "wakeup" =>
        IF morning_time <= wakeup_now.second /\ wakeup_now.second < evening_time
        THEN interval = 3600
        ELSE IF wakeup_now.second < morning_time
        THEN interval = WholeSecondsUntil(wakeup_now.date, morning_time, wakeup_now)
        ELSE interval = WholeSecondsUntil(wakeup_now.date + 1, morning_time, wakeup_now)

\* ------------------------------------------------------------ the scan order
\* The place of the pixel (x, y) in the row-major scan of the image.
ScanIndex(x, y) == y * img.width + x

\* C17: write-once pixels.  A step of the dithering pass assigns a palette
\* color to the pixel under the scan and to no pixel scanned before it: each
\* of its diffusion targets comes strictly later in scan order.  The scan then
\* moves to the next pixel in row-major order, or ends after the last one, so
\* every pixel is quantized exactly once; the clip changes no pixel either.
C17_WriteOnce ==
    [][/\ scan.stage = "dither" =>
             LET targets == Targets(scan.x, scan.y, img.width, img.height)
             IN  /\ pixels'[scan.y][scan.x] \in PaletteColors
                 /\ \A p \in Grid(img.width, img.height) :
                        ScanIndex(p[2], p[1]) < ScanIndex(scan.x, scan.y) =>
                            pixels'[p[1]][p[2]] = pixels[p[1]][p[2]]
                 /\ \A i \in 1..Len(targets) :
                        /\ ScanIndex(targets[i].x, targets[i].y) > ScanIndex(scan.x, scan.y)
                        /\ \/ targets[i].y > scan.y
                           \/ targets[i].y = scan.y /\ targets[i].x > scan.x
                 /\ IF ScanIndex(scan.x, scan.y) + 1 < img.width * img.height
                    THEN /\ scan'.stage = "dither"
                         /\ ScanIndex(scan'.x, scan'.y) = ScanIndex(scan.x, scan.y) + 1
                         /\ scan'.x < img.width
                    ELSE scan'.stage = "clip"
       /\ scan.stage = "clip" => pixels' = pixels]_vars

\* In a 2x2 image starting with a cyan pixel, three pixels have been
\* quantized and the scan is at the last one, which the diffusion has changed.
C17_Witness ==
    /\ scan.stage = "dither" /\ scan.x = 1 /\ scan.y = 1
    /\ img.width = 2 /\ img.height = 2
    /\ img.px[0][0] = <<0, 255, 255>>
    /\ pixels[0][0] \in PaletteColors /\ pixels[0][1] \in PaletteColors
    /\ pixels[1][0] \in PaletteColors
    /\ pixels[1][1] # img.px[1][1]

\* ------------------------------------------------------- the diffusion step
\* The weight, in sixteenths, of the share the pixel (x, y) receives when the
\* pixel under the scan is quantized: 7 to the right, 3 below-left, 5 below,
\* 1 below-right, nothing anywhere else.
WeightAt(x, y) ==
    IF      x = scan.x + 1 /\ y = scan.y     THEN 7
    ELSE IF x = scan.x - 1 /\ y = scan.y + 1 THEN 3
    ELSE IF x = scan.x     /\ y = scan.y + 1 THEN 5
    ELSE IF x = scan.x + 1 /\ y = scan.y + 1 THEN 1
    ELSE 0

\* q is the quotient n / 16 truncated toward zero.
TruncatedSixteenth(n, q) ==
    IF n >= 0 THEN q >= 0 /\ 16 * q <= n /\ n < 16 * (q + 1)
    ELSE q <= 0 /\ 16 * q >= n /\ n > 16 * (q - 1)

\* C18: the diffusion step.  Quantizing the pixel under the scan with error
\* e = old - new adds, channel by channel, e * w / 16 truncated toward zero to
\* the neighbours inside the raster with the weights 7 (right), 3 (below-left),
\* 5 (below) and 1 (below-right); every other pixel of the raster is left
\* alone, so the share of a neighbour outside the raster is dropped.
C18_Diffusion ==
    [][scan.stage = "dither" =>
          LET e == [ch \in 1..3 |->
                      pixels[scan.y][scan.x][ch] - pixels'[scan.y][scan.x][ch]]
          IN  /\ DOMAIN pixels' = 0..(img.height - 1)
              /\ \A y \in 0..(img.height - 1) :
                    /\ DOMAIN pixels'[y] = 0..(img.width - 1)
                    /\ \A x \in 0..(img.width - 1) :
                          <<x, y>> # <<scan.x, scan.y>> =>
                              \A ch \in 1..3 :
                                  TruncatedSixteenth(e[ch] * WeightAt(x, y),
                                      pixels'[y][x][ch] - pixels[y][x][ch])]_vars

\* The first pixel of the top row was cyan and became White, an error of -255
\* in red: its right neighbour, near-black, received -255 * 7 / 16 = -111 and
\* the row has no pixel below it.
C18_Witness ==
    /\ scan.stage = "dither" /\ scan.x = 1 /\ scan.y = 0
    /\ img.width = 2 /\ img.height = 1
    /\ img.px[0][0] = <<0, 255, 255>> /\ img.px[0][1] = <<10, 10, 10>>
    /\ pixels[0][0] = <<255, 255, 255>>
    /\ pixels[0][1] = <<-101, 10, 10>>

\* ------------------------------------------------------- eventual delivery
\* Uploads and next() calls, one at a time and in any order, with no clear.
NextDelivery ==
    \/ \E req \in UploadRequests : upload_image(req)
    \/ get_img_data

\* The device keeps asking: next() is called again and again.
SpecDelivery == Init /\ [][NextDelivery]_vars /\ WF_vars(get_img_data)

\* C19: eventual delivery.  With no clear, a record stored at position i while
\* the cursor is c has been returned by the time i - c + 1 further next() calls
\* have been made, whatever uploads come in between; and if next() keeps
\* being called, every stored record is eventually returned.
C19_EventualDelivery ==
    /\ [](/\ Len(due) = Len(PI)
          /\ \A k \in 1..Len(due) : ~due[k].returned => due[k].left >= 1)
    /\ \A i \in 0..(MaxImages - 1) :
          (Len(PI) > i) ~> (Len(due) > i /\ due[i + 1].returned)

\* The second record was stored while the cursor was 0 and a third was
\* uploaded after it; the second next() call after its store returned it, and
\* the third call has returned the third record.
C19_Witness ==
    /\ Len(PI) = 3 /\ Len(due) = 3
    /\ due[1].returned /\ due[1].left = 0
    /\ due[2] = [left |-> 0, returned |-> TRUE]
    /\ due[3] = [left |-> 0, returned |-> TRUE]
    /\ resp.op = "next" /\ resp.code = 200 /\ resp.pos = 2
    /\ ~cycle.pure

\* ------------------------------------------- delivered records are stored
\* C20: in every state the handlers can reach, interleaved or not, every
\* element of sent_images is an element of processed_images, and a status
\* response reports no more delivered records than stored ones.
C20_SentAreStored ==
    /\ \A k \in 1..Len(SI) : Contains(PI, SI[k])
    /\ resp.op = "status" => resp.sent <= resp.total

====
